---- MODULE Spec2Model ----
(***************************************************************************)
(* Model of homework.py: the startup check of the credentials, the poll    *)
(* loop of main() with its try / except / finally, and the functions the   *)
(* loop calls (get_api_answer, check_response, parse_status, send_message).*)
(*                                                                         *)
(* Python values are modelled as follows.                                  *)
(*  - None is the string "None" kept apart from every other value used.    *)
(*  - A call returns a record [exc, msg, val]: exc is the name of the      *)
(*    exception class raised (None when the call returned), msg the        *)
(*    exception's argument, val the returned value.                        *)
(*  - A decoded JSON value is a record [t, v], t the Python type name.     *)
(*    A dict is a function from its keys; a list is a sequence.            *)
(*  - Text is kept as strings and formatted with \o, as the f-strings do.  *)
(*    The Cyrillic texts of HOMEWORK_VERDICTS and of the message template  *)
(*    are written in Latin transliteration (module text is ASCII), and the *)
(*    backquotes of the error texts are written as apostrophes.            *)
(***************************************************************************)
EXTENDS Integers, Sequences, FiniteSets, TLC

VARIABLES
    globals,      \* the module-level names read from the environment
    pc,           \* where main() is: Starting, Polling, Sleeping, Aborted, Terminated
                  \* (Calling, Returned for a function called on its own)
    raised,       \* str() of the exception that left main(), None if none did
    clock,        \* time.time(), whole seconds
    timestamp,    \* main's local: the poll cursor
    old_message,  \* main's local: the last message handed to send_message
    iter,         \* history: number of iterations whose try block has run
    cur,          \* history: what the last iteration did
    prev_error,   \* history: the error message of the iteration before it
    last_error,   \* history: last error message handed to send_message
    sent_count,   \* history: number of messages handed to send_message
    arg,          \* the argument of a function called on its own (FnSpec)
    result        \* what that call raised or returned

vars == <<globals, pc, raised, clock, timestamp, old_message, iter, cur, prev_error,
          last_error, sent_count, arg, result>>

None == "None"

(***************************************************************************)
(* Bounds of the model.                                                    *)
(***************************************************************************)
MaxIter == 3        \* iterations of the loop that are explored
MaxLatency == 1     \* seconds one try block may take
MaxHomeworks == 2   \* length of the homeworks list a function is called with
StartClock == 1000  \* the clock when the process starts

(***************************************************************************)
(* Module-level constants of homework.py.                                  *)
(***************************************************************************)
RETRY_PERIOD == 600

\* check_tokens' SOURCE
SOURCE_with_endpoint ==
    <<"PRACTICUM_TOKEN", "TELEGRAM_TOKEN", "TELEGRAM_CHAT_ID", "ENDPOINT">>

SOURCE == <<"PRACTICUM_TOKEN", "TELEGRAM_TOKEN", "TELEGRAM_CHAT_ID">>

VERDICT_KEYS == <<"approved", "reviewing", "rejected">>

HOMEWORK_VERDICTS ==
    [approved  |-> "Rabota proverena: revyueru vsyo ponravilos. Ura!",
     reviewing |-> "Rabota vzyata na proverku revyuerom.",
     rejected  |-> "Rabota proverena: u revyuera est zamechaniya."]

(***************************************************************************)
(* Python helpers.                                                         *)
(***************************************************************************)
Raise(type, msg) == [exc |-> type, msg |-> msg, val |-> None]

Return(v) == [exc |-> None, msg |-> "", val |-> v]

\* bool(x) for the values an environment variable can have
Truthy(x) == x # None /\ x # ""

RECURSIVE Join(_, _)
Join(seq, sep) ==
    IF seq = <<>> THEN ""
    ELSE IF Len(seq) = 1 THEN seq[1]
    ELSE seq[1] \o sep \o Join(Tail(seq), sep)

\* str(error): KeyError shows the repr of its argument, the others the argument
StrOfError(e) ==
    IF e.exc = "KeyError" THEN "'" \o e.msg \o "'" ELSE e.msg

\* f"{type(x)}"
TypeRepr(x) == "<class '" \o x.t \o "'>"

\* f"{HOMEWORK_VERDICTS}": the repr of the dict, keys in insertion order
VerdictsRepr ==
    "{" \o Join([i \in 1..Len(VERDICT_KEYS) |->
                    "'" \o VERDICT_KEYS[i] \o "': '"
                        \o HOMEWORK_VERDICTS[VERDICT_KEYS[i]] \o "'"], ", ")
        \o "}"

(***************************************************************************)
(* check_tokens                                                            *)
(***************************************************************************)
check_tokens_first_only(g) ==
    LET not_found_tokens == SelectSeq(SOURCE, LAMBDA token : ~Truthy(g[token]))
    IN  IF not_found_tokens # <<>>
        THEN Raise("TokenNotFound",
                   "Tokens: " \o not_found_tokens[1] \o " not found.")
        ELSE Return(None)

check_tokens(g) ==
    LET not_found_tokens == SelectSeq(SOURCE, LAMBDA token : ~Truthy(g[token]))
    IN  IF not_found_tokens # <<>>
        THEN Raise("TokenNotFound",
                   "Tokens: " \o Join(not_found_tokens, ", ") \o " not found.")
        ELSE Return(None)

(***************************************************************************)
(* send_message.  tg_ok tells whether bot.send_message returned; when it   *)
(* did not, it raised a telegram.TelegramError, which the function catches *)
(* and logs.  val is TRUE when the message reached the chat.               *)
(***************************************************************************)
send_message_uncaught(message, tg_ok) ==
    IF tg_ok THEN Return(TRUE)
    ELSE Raise("TelegramError", "Timed out")

send_message(message, tg_ok) ==
    IF tg_ok THEN Return(TRUE)
    ELSE Return(FALSE)

(***************************************************************************)
(* What the network does with one GET: requests.get raises a               *)
(* RequestException (kind "error"), or returns a response with a status    *)
(* code, a reason phrase and a body.  A body of type "invalid" is not      *)
(* JSON; any other body is the value response.json() decodes.              *)
(***************************************************************************)
NetError(text) == [kind |-> "error", error |-> text]

NetResponse(code, reason, body) ==
    [kind |-> "response", status_code |-> code, reason |-> reason, body |-> body]

JDict(f) == [t |-> "dict", v |-> f]
JList(s) == [t |-> "list", v |-> s]
JInt(n) == [t |-> "int", v |-> n]
JStr(s) == [t |-> "str", v |-> s]
NotJson == [t |-> "invalid", v |-> None]

\* requests.get(ENDPOINT, ...): an unset ENDPOINT is no URL, and requests
\* raises MissingSchema (a RequestException) before anything is sent
requests_get(endpoint, net) ==
    IF ~Truthy(endpoint)
    THEN NetError("Invalid URL '" \o endpoint
                  \o "': No scheme supplied. Perhaps you meant https://"
                  \o endpoint \o "?")
    ELSE net

(***************************************************************************)
(* get_api_answer                                                          *)
(***************************************************************************)
get_api_answer_any_status(from_date, endpoint, net) ==
    LET response == requests_get(endpoint, net)
    IN  IF response.kind = "error"
        THEN Raise("ConnectionError",
                   "Error happens while sending the request. "
                   \o "It says: " \o response.error)
        ELSE IF response.body.t = "invalid"
        THEN Raise("JSONDecodeError", "Expecting value: line 1 column 1 (char 0)")
        ELSE Return(response.body)

get_api_answer(from_date, endpoint, net) ==
    LET response == requests_get(endpoint, net)
    IN  IF response.kind = "error"
        THEN Raise("ConnectionError",
                   "Error happens while sending the request. "
                   \o "It says: " \o response.error)
        ELSE IF response.status_code # 200
        THEN Raise("WrongResponseStatusCode",
                   "Endpoint is not available. "
                   \o "Status code: " \o ToString(response.status_code)
                   \o " is " \o response.reason)
        ELSE IF response.body.t = "invalid"
        THEN Raise("JSONDecodeError", "Expecting value: line 1 column 1 (char 0)")
        ELSE Return(response.body)

(***************************************************************************)
(* check_response                                                          *)
(***************************************************************************)
check_response_rejects_empty(response) ==
    IF response.t # "dict"
    THEN Raise("TypeError",
               "Type server response: " \o TypeRepr(response)
               \o " is not dict instance")
    ELSE IF \/ "homeworks" \notin DOMAIN response.v
            \/ /\ response.v["homeworks"].t = "list"
               /\ response.v["homeworks"].v = <<>>
    THEN Raise("TypeError", "There are no key 'homeworks' in API response")
    ELSE IF "current_date" \notin DOMAIN response.v
    THEN Raise("TypeError", "There are no key 'current_date' in API response")
    ELSE IF response.v["homeworks"].t # "list"
    THEN Raise("TypeError",
               "Type value of homeworks key: "
               \o TypeRepr(response.v["homeworks"]) \o " is not list instance")
    ELSE Return(response.v["homeworks"].v)

check_response(response) ==
    IF response.t # "dict"
    THEN Raise("TypeError",
               "Type server response: " \o TypeRepr(response)
               \o " is not dict instance")
    ELSE IF "homeworks" \notin DOMAIN response.v
    THEN Raise("TypeError", "There are no key 'homeworks' in API response")
    ELSE IF "current_date" \notin DOMAIN response.v
    THEN Raise("TypeError", "There are no key 'current_date' in API response")
    ELSE IF response.v["homeworks"].t # "list"
    THEN Raise("TypeError",
               "Type value of homeworks key: "
               \o TypeRepr(response.v["homeworks"]) \o " is not list instance")
    ELSE Return(response.v["homeworks"].v)

(***************************************************************************)
(* parse_status.  A homework is a dict: a function from its keys.          *)
(***************************************************************************)
parse_status_any_status(homeworks) ==
    IF "homework_name" \notin DOMAIN homeworks
    THEN Raise("KeyError", "Key 'homework_name' is not found")
    ELSE IF "status" \notin DOMAIN homeworks
    THEN Raise("KeyError", "Key 'status' is not found")
    ELSE LET status == homeworks["status"]
             homeworks_name == homeworks["homework_name"]
         IN  Return("Izmenilsya status proverki raboty \""
                    \o homeworks_name \o "\". "
                    \o (IF status \in DOMAIN HOMEWORK_VERDICTS
                        THEN HOMEWORK_VERDICTS[status] ELSE "None"))

parse_status(homeworks) ==
    IF "homework_name" \notin DOMAIN homeworks
    THEN Raise("KeyError", "Key 'homework_name' is not found")
    ELSE IF "status" \notin DOMAIN homeworks
    THEN Raise("KeyError", "Key 'status' is not found")
    ELSE LET status == homeworks["status"]
             homeworks_name == homeworks["homework_name"]
         IN  IF status \notin DOMAIN HOMEWORK_VERDICTS
             THEN Raise("ValueError",
                        "Status: " \o status \o " is not in "
                        \o VerdictsRepr \o ".")
             ELSE Return("Izmenilsya status proverki raboty \""
                         \o homeworks_name \o "\". "
                         \o HOMEWORK_VERDICTS[status])

(***************************************************************************)
(* main: one pass of the while loop.  `now` is what time.time() returns    *)
(* when the try block reaches its last line; tg_ok tells whether           *)
(* bot.send_message returns during this pass (a pass of the loop calls     *)
(* send_message at most once).                                             *)
(*                                                                         *)
(* The state of the pass is [timestamp, old_message, sends, error,         *)
(* uncaught]: the two locals, the messages handed to send_message (with    *)
(* whether each reached the chat), the message built for the caught        *)
(* exception (None if none was caught) and str() of an exception that      *)
(* nothing caught (None if there is none).                                 *)
(***************************************************************************)
NoError == [exc |-> None, msg |-> ""]

ErrorOf(r) == [exc |-> r.exc, msg |-> r.msg]

Sent(message, r) == [msg |-> message, delivered |-> r.exc = None /\ r.val]

\* homeworks[0]
last_homework(homeworks) == homeworks[Len(homeworks)]

first_homework(homeworks) == homeworks[1]

\* timestamp = int(time.time())
new_timestamp_minus_period(now) == now - RETRY_PERIOD

new_timestamp(now) == now

\* the try block: its locals and sends when it ends, and the exception that
\* ended it (exc = None when it ran to its last line)
try_block_dedup(ts, old, endpoint, net, tg_ok, now) ==
    LET unchanged == [timestamp |-> ts, old_message |-> old, sends |-> <<>>]
        response == get_api_answer(ts, endpoint, net)
    IN  IF response.exc # None
        THEN [st |-> unchanged, exception |-> ErrorOf(response)]
        ELSE
        LET homeworks == check_response(response.val)
        IN  IF homeworks.exc # None
            THEN [st |-> unchanged, exception |-> ErrorOf(homeworks)]
            ELSE IF homeworks.val # <<>>
            THEN
                LET message == parse_status(first_homework(homeworks.val))
                IN  IF message.exc # None
                    THEN [st |-> unchanged, exception |-> ErrorOf(message)]
                    ELSE IF message.val = old
                    THEN [st |-> [unchanged EXCEPT !.timestamp = new_timestamp(now)],
                          exception |-> NoError]
                    ELSE
                    LET s == send_message(message.val, tg_ok)
                    IN  [st |-> [timestamp |-> new_timestamp(now),
                                 old_message |-> message.val,
                                 sends |-> <<Sent(message.val, s)>>],
                         exception |-> NoError]
            ELSE [st |-> [unchanged EXCEPT !.timestamp = new_timestamp(now)],
                  exception |-> NoError]

try_block_forget_on_empty(ts, old, endpoint, net, tg_ok, now) ==
    LET unchanged == [timestamp |-> ts, old_message |-> old, sends |-> <<>>]
        response == get_api_answer(ts, endpoint, net)
    IN  IF response.exc # None
        THEN [st |-> unchanged, exception |-> ErrorOf(response)]
        ELSE
        LET homeworks == check_response(response.val)
        IN  IF homeworks.exc # None
            THEN [st |-> unchanged, exception |-> ErrorOf(homeworks)]
            ELSE IF homeworks.val # <<>>
            THEN
                LET message == parse_status(first_homework(homeworks.val))
                IN  IF message.exc # None
                    THEN [st |-> unchanged, exception |-> ErrorOf(message)]
                    ELSE
                    LET s == send_message(message.val, tg_ok)
                    IN  [st |-> [timestamp |-> new_timestamp(now),
                                 old_message |-> message.val,
                                 sends |-> <<Sent(message.val, s)>>],
                         exception |-> NoError]
            ELSE [st |-> [timestamp |-> new_timestamp(now),
                          old_message |-> "",
                          sends |-> <<>>],
                  exception |-> NoError]

try_block(ts, old, endpoint, net, tg_ok, now) ==
    LET unchanged == [timestamp |-> ts, old_message |-> old, sends |-> <<>>]
        response == get_api_answer(ts, endpoint, net)
    IN  IF response.exc # None
        THEN [st |-> unchanged, exception |-> ErrorOf(response)]
        ELSE
        LET homeworks == check_response(response.val)
        IN  IF homeworks.exc # None
            THEN [st |-> unchanged, exception |-> ErrorOf(homeworks)]
            ELSE IF homeworks.val # <<>>
            THEN
                LET message == parse_status(first_homework(homeworks.val))
                IN  IF message.exc # None
                    THEN [st |-> unchanged, exception |-> ErrorOf(message)]
                    ELSE
                    LET s == send_message(message.val, tg_ok)
                    IN  IF s.exc # None
                        THEN [st |-> [unchanged EXCEPT
                                        !.sends = <<Sent(message.val, s)>>],
                              exception |-> ErrorOf(s)]
                        ELSE [st |-> [timestamp |-> new_timestamp(now),
                                      old_message |-> message.val,
                                      sends |-> <<Sent(message.val, s)>>],
                              exception |-> NoError]
            ELSE [st |-> [unchanged EXCEPT !.timestamp = new_timestamp(now)],
                  exception |-> NoError]

\* if message != old_message
always_notify(message, old) == TRUE

should_notify(message, old) == message # old

\* the except block, entered with the state st the try block left and the
\* exception it raised
except_block_remember_delivered(st, exception, tg_ok) ==
    LET message == "Error occurred while loop working: " \o StrOfError(exception)
    IN  IF should_notify(message, st.old_message)
        THEN LET s == send_message(message, tg_ok)
             IN  [timestamp |-> st.timestamp,
                  old_message |-> IF s.val THEN message ELSE st.old_message,
                  sends |-> Append(st.sends, Sent(message, s)),
                  error |-> message,
                  uncaught |-> None]
        ELSE [timestamp |-> st.timestamp,
              old_message |-> st.old_message,
              sends |-> st.sends,
              error |-> message,
              uncaught |-> None]

except_block(st, exception, tg_ok) ==
    LET message == "Error occurred while loop working: " \o StrOfError(exception)
    IN  IF should_notify(message, st.old_message)
        THEN LET s == send_message(message, tg_ok)
             IN  IF s.exc # None
                 THEN [timestamp |-> st.timestamp,
                       old_message |-> st.old_message,
                       sends |-> Append(st.sends, Sent(message, s)),
                       error |-> message,
                       uncaught |-> StrOfError(s)]
                 ELSE [timestamp |-> st.timestamp,
                       old_message |-> message,
                       sends |-> Append(st.sends, Sent(message, s)),
                       error |-> message,
                       uncaught |-> None]
        ELSE [timestamp |-> st.timestamp,
              old_message |-> st.old_message,
              sends |-> st.sends,
              error |-> message,
              uncaught |-> None]

\* except Exception as error: the classes that derive from Exception
only_connection_error(class) == class = "ConnectionError"

is_exception(class) ==
    class \in {"ConnectionError", "WrongResponseStatusCode", "JSONDecodeError",
               "TypeError", "KeyError", "ValueError", "TelegramError",
               "TokenNotFound"}

\* try + except
Iteration(ts, old, endpoint, net, tg_ok, now) ==
    LET t == try_block(ts, old, endpoint, net, tg_ok, now)
    IN  IF t.exception.exc # None /\ is_exception(t.exception.exc)
        THEN except_block(t.st, t.exception, tg_ok)
        ELSE IF t.exception.exc # None
        THEN [timestamp |-> t.st.timestamp,
              old_message |-> t.st.old_message,
              sends |-> t.st.sends,
              error |-> None,
              uncaught |-> StrOfError(t.exception)]
        ELSE [timestamp |-> t.st.timestamp,
              old_message |-> t.st.old_message,
              sends |-> t.st.sends,
              error |-> None,
              uncaught |-> None]

\* finally: time.sleep(RETRY_PERIOD)
sleep_unless_error(c) == IF c.error = None THEN RETRY_PERIOD ELSE 0

finally_sleep(c) == RETRY_PERIOD

(***************************************************************************)
(* The replies of the API that are explored.                               *)
(***************************************************************************)
Homework(name, status) == [homework_name |-> name, status |-> status]

Payload(homeworks) ==
    JDict([homeworks |-> homeworks, current_date |-> JInt(1700000000)])

Ok(body) == NetResponse(200, "OK", body)

ApiReplies == <<
    NetError("Connection refused"),
    NetResponse(503, "Service Unavailable", NotJson),
    Ok(NotJson),
    Ok(JList(<<>>)),
    Ok(JDict([current_date |-> JInt(1700000000)])),
    Ok(Payload(JList(<<>>))),
    Ok(Payload(JList(<<Homework("hw1", "approved")>>))),
    Ok(Payload(JList(<<Homework("hw1", "approved"), Homework("hw2", "rejected")>>))),
    Ok(Payload(JList(<<Homework("hw2", "reviewing"), Homework("hw1", "approved"),
                       Homework("hw3", "rejected")>>))),
    Ok(Payload(JList(<<Homework("hw1", "unknown")>>))),
    Ok(Payload(JList(<<[homework_name |-> "hw1"]>>)))
>>

(***************************************************************************)
(* The state machine.                                                      *)
(***************************************************************************)
\* os.getenv of the three secrets gives None (unset), "" or a value
Secrets == {"PRACTICUM_TOKEN", "TELEGRAM_TOKEN", "TELEGRAM_CHAT_ID"}

\* delivered_before: whether the last message handed to send_message before
\* the pass reached the chat (TRUE when there was none); quiet_before: the
\* error message of the last pass before it that was not a silent one (one
\* that raised nothing and sent nothing), None if that pass succeeded or
\* there was none
NoIteration ==
    [reply |-> 0, from_date |-> 0, clock_end |-> 0, old_before |-> "",
     last_error_before |-> None, delivered_before |-> TRUE,
     quiet_before |-> None, sends |-> <<>>, error |-> None,
     uncaught |-> None, slept |-> <<>>]

NoArg == [fn |-> None]

Init ==
    /\ globals \in
         {[name \in Secrets \cup {"ENDPOINT"} |->
              IF name = "ENDPOINT" THEN endpoint ELSE secrets[name]] :
            secrets \in [Secrets -> {None, "", "secret"}],
            endpoint \in {None, "https://practicum.example/api"}}
    /\ pc = "Starting"
    /\ raised = None
    /\ clock = StartClock
    /\ timestamp = 0
    /\ old_message = ""
    /\ iter = 0
    /\ cur = NoIteration
    /\ prev_error = None
    /\ last_error = None
    /\ sent_count = 0
    /\ arg = NoArg
    /\ result = Return(None)

ENDPOINT == globals["ENDPOINT"]

\* main up to the loop: check_tokens(), the bot, the two locals
Start ==
    /\ pc = "Starting"
    /\ LET checked == check_tokens(globals)
       IN  IF checked.exc # None
           THEN /\ pc' = "Aborted"
                /\ raised' = StrOfError(checked)
                /\ UNCHANGED <<timestamp, old_message>>
           ELSE /\ pc' = "Polling"
                /\ timestamp' = clock
                /\ old_message' = ""
                /\ UNCHANGED raised
    /\ UNCHANGED <<globals, clock, iter, cur, prev_error, last_error, sent_count,
                   arg, result>>

\* the try block and, when it raised, the except block; the reply is one of
\* ApiReplies[n], n in replies, and the block takes one of latencies seconds
PollWith(replies, latencies) ==
    /\ pc = "Polling"
    /\ iter < MaxIter
    /\ \E n \in replies, d \in latencies, tg_ok \in BOOLEAN :
        LET r == Iteration(timestamp, old_message, ENDPOINT, ApiReplies[n],
                           tg_ok, clock + d)
        IN  /\ clock' = clock + d
            /\ timestamp' = r.timestamp
            /\ old_message' = r.old_message
            /\ iter' = iter + 1
            /\ cur' = [reply |-> n, from_date |-> timestamp,
                       clock_end |-> clock + d, old_before |-> old_message,
                       last_error_before |-> last_error,
                       delivered_before |->
                           IF cur.sends # <<>>
                           THEN cur.sends[Len(cur.sends)].delivered
                           ELSE cur.delivered_before,
                       quiet_before |->
                           IF cur.error = None /\ cur.sends = <<>>
                           THEN cur.quiet_before ELSE cur.error,
                       sends |-> r.sends, error |-> r.error,
                       uncaught |-> r.uncaught, slept |-> <<>>]
            /\ prev_error' = cur.error
            /\ last_error' = IF r.error # None /\ r.sends # <<>>
                             THEN r.error ELSE last_error
            /\ sent_count' = sent_count + Len(r.sends)
    /\ pc' = "Sleeping"
    /\ UNCHANGED <<globals, raised, arg, result>>

\* the finally block, and then the loop again unless an exception is on its way
Sleep ==
    /\ pc = "Sleeping"
    /\ clock' = clock + finally_sleep(cur)
    /\ cur' = [cur EXCEPT !.slept = Append(@, finally_sleep(cur))]
    /\ IF cur.uncaught # None
       THEN pc' = "Terminated" /\ raised' = cur.uncaught
       ELSE pc' = "Polling" /\ UNCHANGED raised
    /\ UNCHANGED <<globals, timestamp, old_message, iter, prev_error,
                   last_error, sent_count, arg, result>>

Poll == PollWith(DOMAIN ApiReplies, 0..MaxLatency)

Next == Start \/ Poll \/ Sleep

Spec == Init /\ [][Next]_vars

(***************************************************************************)
(* check_response and parse_status called on their own, with arguments of  *)
(* every shape: arg describes the argument, and ResponseOf / HomeworkOf    *)
(* build the Python value it describes.                                    *)
(***************************************************************************)
HomeworkPool ==
    <<Homework("hw1", "approved"), Homework("hw2", "rejected"),
      [homework_name |-> "hw3"]>>

\* the lists of up to MaxHomeworks records of the pool, by their indices
ItemLists == UNION {[1..n -> DOMAIN HomeworkPool] : n \in 0..MaxHomeworks}

ItemsOf(a) == [k \in 1..Len(a.items) |-> HomeworkPool[a.items[k]]]

\* top: the type of the decoded body; keys: its keys when it is a dict;
\* hwtype: the type of its homeworks value; items: that value when a list
ResponseArgs ==
    [fn : {"check_response"},
     top : {"dict", "list", "str", "NoneType"},
     keys : SUBSET {"homeworks", "current_date", "code"},
     hwtype : {"list", "dict", "str", "NoneType"},
     items : ItemLists]

ResponseOf(a) ==
    LET homeworks ==
            IF a.hwtype = "list" THEN JList(ItemsOf(a))
            ELSE IF a.hwtype = "dict" THEN JDict(<<>>)
            ELSE [t |-> a.hwtype, v |-> None]
    IN  IF a.top = "dict"
        THEN JDict([k \in a.keys |->
                      IF k = "homeworks" THEN homeworks ELSE JInt(1700000000)])
        ELSE IF a.top = "list" THEN JList(ItemsOf(a))
        ELSE [t |-> a.top, v |-> None]

\* keys: the keys of the homework dict; name, status: the values of
\* homework_name and status when it has them
HomeworkArgs ==
    [fn : {"parse_status"},
     keys : SUBSET {"homework_name", "status", "id"},
     name : {"hw1", ""},
     status : {"approved", "reviewing", "rejected", "", "unknown", "Approved"}]

HomeworkOf(a) ==
    [k \in a.keys |->
        IF k = "homework_name" THEN a.name
        ELSE IF k = "status" THEN a.status
        ELSE "7"]

FnInit ==
    /\ globals = [name \in Secrets \cup {"ENDPOINT"} |-> "secret"]
    /\ pc = "Calling"
    /\ raised = None
    /\ clock = StartClock
    /\ timestamp = 0
    /\ old_message = ""
    /\ iter = 0
    /\ cur = NoIteration
    /\ prev_error = None
    /\ last_error = None
    /\ sent_count = 0
    /\ \/ arg \in ResponseArgs
       \/ arg \in HomeworkArgs
    /\ result = Return(None)

CallCheckResponse ==
    /\ pc = "Calling"
    /\ arg.fn = "check_response"
    /\ result' = check_response(ResponseOf(arg))
    /\ pc' = "Returned"
    /\ UNCHANGED <<globals, raised, clock, timestamp, old_message, iter, cur,
                   prev_error, last_error, sent_count, arg>>

CallParseStatus ==
    /\ pc = "Calling"
    /\ arg.fn = "parse_status"
    /\ result' = parse_status(HomeworkOf(arg))
    /\ pc' = "Returned"
    /\ UNCHANGED <<globals, raised, clock, timestamp, old_message, iter, cur,
                   prev_error, last_error, sent_count, arg>>

FnNext == CallCheckResponse \/ CallParseStatus

FnSpec == FnInit /\ [][FnNext]_vars

(***************************************************************************)
(* Properties.  Each is about the last pass of the loop, recorded in cur,  *)
(* and so about every pass.                                                *)
(***************************************************************************)
Messages(sends) == [k \in 1..Len(sends) |-> sends[k].msg]

\* the list check_response returns for the reply of the last pass
\* (<<>> too when the pass got no valid response: see Succeeded)
CurHomeworks ==
    LET response == get_api_answer(cur.from_date, ENDPOINT, ApiReplies[cur.reply])
    IN  IF response.exc # None THEN <<>>
        ELSE LET homeworks == check_response(response.val)
             IN  IF homeworks.exc # None THEN <<>> ELSE homeworks.val

\* get_api_answer and check_response succeeded in the last pass
Succeeded ==
    /\ iter > 0
    /\ LET response == get_api_answer(cur.from_date, ENDPOINT, ApiReplies[cur.reply])
       IN  /\ response.exc = None
           /\ check_response(response.val).exc = None

WellFormed(homework) ==
    /\ {"homework_name", "status"} \subseteq DOMAIN homework
    /\ homework["status"] \in {"approved", "reviewing", "rejected"}

AllWellFormed == \A k \in 1..Len(CurHomeworks) : WellFormed(CurHomeworks[k])

\* C1 as stated: a pass whose response is valid and holds N well-formed
\* records hands exactly N messages to send_message, the k-th being the
\* verdict of the k-th record.
C1_EveryRecordNotified ==
    (Succeeded /\ AllWellFormed) =>
        Messages(cur.sends) =
            [k \in 1..Len(CurHomeworks) |-> parse_status(CurHomeworks[k]).val]

\* C1 amended: such a pass hands no message when N = 0 and exactly one when
\* N >= 1, the verdict of the first record of the response; the records
\* after the first are not announced.
C1_FirstRecordNotified ==
    (Succeeded /\ AllWellFormed) =>
        Messages(cur.sends) =
            IF CurHomeworks = <<>> THEN <<>>
            ELSE <<parse_status(CurHomeworks[1]).val>>

C1_Witness ==
    /\ Succeeded /\ AllWellFormed
    /\ Len(CurHomeworks) = 3
    /\ Messages(cur.sends) =
         <<"Izmenilsya status proverki raboty \"hw2\". Rabota vzyata na proverku revyuerom.">>

\* C2 as stated: of consecutive passes failing with the same message only
\* the first hands a notification to send_message, and it always does; a
\* pass that fails with another message than the failed pass before it
\* hands a new notification.
C2_OnePerRun ==
    (iter > 0 /\ cur.error # None) =>
        /\ prev_error = cur.error => cur.sends = <<>>
        /\ prev_error # cur.error => Messages(cur.sends) = <<cur.error>>

\* C2 amended: of consecutive passes failing with the same message only the
\* first can hand a notification, and it does unless its message is the
\* last message handed to send_message (the failure was notified before and
\* only passes with an empty response came between): then none is sent.  A
\* pass that fails with another message than the failed pass before it
\* (which last_error holds) hands a new notification.
C2_AtMostOnePerRun ==
    (iter > 0 /\ cur.error # None) =>
        /\ last_error = cur.error
        /\ prev_error = cur.error => cur.sends = <<>>
        /\ prev_error # cur.error =>
             Messages(cur.sends) =
                 IF cur.error = cur.old_before THEN <<>> ELSE <<cur.error>>
        /\ (cur.last_error_before # cur.error \/ (prev_error # None /\ prev_error # cur.error))
             => Messages(cur.sends) = <<cur.error>>

C2_Witness ==
    /\ iter = 3
    /\ cur.error # None
    /\ prev_error = None
    /\ cur.error = cur.old_before
    /\ cur.sends = <<>>

\* C3 as stated: the from_date of a pass is the clock taken when the pass
\* before it ended its attempt, also when that pass failed.
C3_CursorAlwaysAdvanced ==
    [][(iter > 0 /\ iter' = iter + 1) => cur'.from_date = cur.clock_end]_vars

\* C3 amended: the from_date of a pass is the clock taken at the end of the
\* pass before it when that pass succeeded, and the from_date of the pass
\* before it when that pass failed: a failed attempt leaves the cursor as
\* it was.
C3_CursorAdvancedOnSuccess ==
    [][(iter > 0 /\ iter' = iter + 1) =>
          cur'.from_date = IF cur.error = None THEN cur.clock_end
                           ELSE cur.from_date]_vars

C3_Witness ==
    /\ iter = 2
    /\ prev_error # None
    /\ cur.from_date = StartClock
    /\ clock > StartClock + RETRY_PERIOD

\* C4: once check_tokens has passed the loop does not end: a pass goes
\* from Polling to Sleeping and from Sleeping to Polling whatever
\* get_api_answer, check_response or parse_status raised, and no exception
\* is left uncaught.
C4_LoopNeverExits ==
    [][/\ pc = "Polling" => (pc' = "Sleeping" /\ cur'.uncaught = None)
       /\ pc = "Sleeping" => (pc' = "Polling" /\ raised' = None)]_vars

C4_Witness ==
    /\ pc = "Polling"
    /\ iter = 3
    /\ prev_error # None
    /\ cur.reply = 10
    /\ cur.error # None

\* what the last pass would have done had bot.send_message returned
CurIfSent ==
    Iteration(cur.from_date, cur.old_before, ENDPOINT, ApiReplies[cur.reply],
              TRUE, cur.clock_end)

\* C5: a pass in which bot.send_message raised ends as the pass in which it
\* returned does: nothing is raised out of it, the locals and the messages
\* handed over are the same, and the loop sleeps and polls again.
C5_SendFailureSwallowed ==
    (iter > 0 /\ \E k \in 1..Len(cur.sends) : ~cur.sends[k].delivered) =>
        /\ cur.uncaught = None
        /\ raised = None
        /\ pc \in {"Sleeping", "Polling"}
        /\ Messages(cur.sends) = Messages(CurIfSent.sends)
        /\ cur.error = CurIfSent.error
        /\ old_message = CurIfSent.old_message
        /\ timestamp = CurIfSent.timestamp

C5_Witness ==
    /\ pc = "Polling"
    /\ iter = 2
    /\ cur.error # None
    /\ Len(cur.sends) = 1
    /\ ~cur.sends[1].delivered
    /\ sent_count = 2
    /\ prev_error = None

\* C6: when a pass starts, the pass before it has slept once, for
\* RETRY_PERIOD = 600 seconds, whatever it did; it has not slept before its
\* try block ended.
C6_OneSleepPerPass ==
    /\ RETRY_PERIOD = 600
    /\ (pc = "Polling" /\ iter > 0) =>
          (cur.slept = <<600>> /\ clock = cur.clock_end + 600)
    /\ pc = "Sleeping" => cur.slept = <<>>

C6_Witness ==
    /\ pc = "Polling"
    /\ iter = 2
    /\ cur.error # None
    /\ cur.sends = <<>>
    /\ cur.slept = <<600>>

\* C7 as stated: a failure message is handed to send_message if and only
\* if it differs from the error message sent last; after failure E
\* (notified), a pass that sent a status message and failure E again, the
\* second E is not sent.
C7_ComparedWithLastError ==
    (iter > 0 /\ cur.error # None) =>
        (cur.sends # <<>> <=> cur.error # cur.last_error_before)

\* C7 amended: a failure message is handed to send_message if and only if
\* it differs from the message handed last, be it an error or a status
\* message; after failure E (notified), a pass that sent a status message
\* and failure E again, the second E is sent again.
C7_ComparedWithLastMessage ==
    (iter > 0 /\ cur.error # None) =>
        /\ Messages(cur.sends) =
             IF cur.error # cur.old_before THEN <<cur.error>> ELSE <<>>
        /\ (cur.error = cur.last_error_before /\ cur.old_before # cur.error)
             => Messages(cur.sends) = <<cur.error>>

C7_Witness ==
    /\ iter = 3
    /\ cur.error # None
    /\ cur.error = cur.last_error_before
    /\ prev_error = None
    /\ cur.old_before =
         "Izmenilsya status proverki raboty \"hw1\". Rabota proverena: revyueru vsyo ponravilos. Ura!"
    /\ Messages(cur.sends) = <<cur.error>>

\* The loop under fairness: a step that can be taken is taken (the request
\* returns, the sleep ends).  The replies are a connection error, status
\* 503, no homework and one homework, each pass taking a second.
PollFew == PollWith({1, 2, 6, 7}, {1})

LiveNext == Start \/ PollFew \/ Sleep

LiveSpec == Init /\ [][LiveNext]_vars /\ WF_vars(PollFew) /\ WF_vars(Sleep)

Got503 == iter > 0 /\ ENDPOINT # None /\ cur.reply = 2

Missing == {name \in Secrets : globals[name] \in {None, ""}}

\* the text that names exactly the secrets of a set
NamingExactly(S) ==
    CASE S = {"PRACTICUM_TOKEN"} ->
           "Tokens: PRACTICUM_TOKEN not found."
      [] S = {"TELEGRAM_TOKEN"} ->
           "Tokens: TELEGRAM_TOKEN not found."
      [] S = {"TELEGRAM_CHAT_ID"} ->
           "Tokens: TELEGRAM_CHAT_ID not found."
      [] S = {"PRACTICUM_TOKEN", "TELEGRAM_TOKEN"} ->
           "Tokens: PRACTICUM_TOKEN, TELEGRAM_TOKEN not found."
      [] S = {"PRACTICUM_TOKEN", "TELEGRAM_CHAT_ID"} ->
           "Tokens: PRACTICUM_TOKEN, TELEGRAM_CHAT_ID not found."
      [] S = {"TELEGRAM_TOKEN", "TELEGRAM_CHAT_ID"} ->
           "Tokens: TELEGRAM_TOKEN, TELEGRAM_CHAT_ID not found."
      [] S = {"PRACTICUM_TOKEN", "TELEGRAM_TOKEN", "TELEGRAM_CHAT_ID"} ->
           "Tokens: PRACTICUM_TOKEN, TELEGRAM_TOKEN, TELEGRAM_CHAT_ID not found."
      [] OTHER -> None

\* C9: for every set of unset or empty secrets, check_tokens raises if and
\* only if the set is not empty, and the text of the error names the
\* members of the set and no other secret.
C9_ExactlyTheMissingNamed ==
    pc # "Starting" =>
        /\ pc = "Aborted" <=> Missing # {}
        /\ raised = NamingExactly(Missing)

C9_Witness ==
    /\ pc = "Aborted"
    /\ globals["PRACTICUM_TOKEN"] = None
    /\ globals["TELEGRAM_TOKEN"] = "secret"
    /\ globals["TELEGRAM_CHAT_ID"] = ""
    /\ raised = "Tokens: PRACTICUM_TOKEN, TELEGRAM_CHAT_ID not found."

\* C10: Aborted is entered from Starting only, and only with a secret
\* missing; it is never left; in it no request has been issued and no
\* message handed to send_message; a run that has entered the loop does
\* not reach it.
C10_AbortedOnlyAtStartup ==
    /\ [](pc = "Aborted" =>
            /\ Missing # {}
            /\ iter = 0
            /\ cur = NoIteration
            /\ sent_count = 0
            /\ old_message = "")
    /\ [][/\ pc' = "Aborted" => pc \in {"Starting", "Aborted"}
          /\ pc \in {"Polling", "Sleeping"} => pc' \in {"Polling", "Sleeping"}]_vars

C10_Witness ==
    /\ pc = "Aborted"
    /\ Missing = {"TELEGRAM_TOKEN"}
    /\ ENDPOINT = None
    /\ iter = 0
    /\ sent_count = 0

\* the reply of the last pass has status 200 and a body that is a dict with
\* both keys and an empty list of homeworks
GotEmptyList ==
    /\ iter > 0
    /\ ENDPOINT # None
    /\ LET reply == ApiReplies[cur.reply]
       IN  /\ reply.kind = "response"
           /\ reply.status_code = 200
           /\ reply.body.t = "dict"
           /\ {"homeworks", "current_date"} \subseteq DOMAIN reply.body.v
           /\ reply.body.v["homeworks"].t = "list"
           /\ reply.body.v["homeworks"].v = <<>>

\* C11: a pass whose response is valid and has an empty homeworks list
\* hands no message to send_message and raises nothing: no error message
\* is built.
C11_EmptyListIsSilent ==
    GotEmptyList =>
        /\ cur.sends = <<>>
        /\ cur.error = None
        /\ cur.uncaught = None
        /\ raised = None

C11_Witness ==
    /\ GotEmptyList
    /\ iter = 1
    /\ sent_count = 0
    /\ pc = "Polling"

\* C12: the from_date of a pass is never less than the from_date of the
\* pass before it, whether that pass succeeded or failed (the clock does
\* not go back).
C12_CursorMonotonic ==
    [][/\ clock' >= clock
       /\ (iter > 0 /\ iter' = iter + 1) => cur'.from_date >= cur.from_date
       /\ pc # "Starting" => timestamp' >= timestamp]_vars

C12_Witness ==
    /\ iter = 3
    /\ prev_error # None
    /\ cur.error = None
    /\ cur.from_date > StartClock
    /\ timestamp > cur.from_date

\* C13 as stated: every well-formed record of a valid response has its
\* formatted message handed to send_message, also when it equals the last
\* message sent.
C13_EveryRecordAnnounced ==
    Succeeded =>
        \A k \in 1..Len(CurHomeworks) :
            WellFormed(CurHomeworks[k]) =>
                \E j \in 1..Len(cur.sends) :
                    cur.sends[j].msg = parse_status(CurHomeworks[k]).val

\* C13 amended: when the first record of a valid response is well-formed,
\* its formatted message is handed to send_message, also when it equals the
\* last message sent (the same homework with the same status in two passes
\* gives two notifications); the records after the first are not announced.
C13_FirstRecordNeverDeduplicated ==
    (Succeeded /\ CurHomeworks # <<>> /\ WellFormed(CurHomeworks[1])) =>
        /\ Messages(cur.sends) = <<parse_status(CurHomeworks[1]).val>>
        /\ cur.error = None

C13_Witness ==
    /\ iter = 2
    /\ Succeeded
    /\ cur.reply = 7
    /\ cur.old_before =
         "Izmenilsya status proverki raboty \"hw1\". Rabota proverena: revyueru vsyo ponravilos. Ura!"
    /\ Messages(cur.sends) = <<cur.old_before>>
    /\ sent_count = 2

NoEndpointText ==
    "Error occurred while loop working: Error happens while sending the request. It says: Invalid URL 'None': No scheme supplied. Perhaps you meant https://None?"

\* C16: with the three secrets set and ENDPOINT unset, startup does not
\* abort and the loop is entered; every pass fails with the request error,
\* which is caught, handed to send_message in the first pass and not in
\* the passes after it.
C16_MissingEndpointSurfacesInLoop ==
    (ENDPOINT = None /\ Missing = {}) =>
        /\ pc \in {"Starting", "Polling", "Sleeping"}
        /\ raised = None
        /\ iter > 0 =>
             /\ cur.error = NoEndpointText
             /\ cur.uncaught = None
             /\ Messages(cur.sends) =
                  IF iter = 1 THEN <<NoEndpointText>> ELSE <<>>
             /\ sent_count = 1

C16_Witness ==
    /\ ENDPOINT = None
    /\ Missing = {}
    /\ pc = "Polling"
    /\ iter = 3
    /\ cur.error = NoEndpointText
    /\ cur.sends = <<>>
    /\ sent_count = 1

\* the homeworks of the reply of the last pass, when it has status 200 and
\* a body that is a dict with both keys and a list of homeworks
ReplyHomeworks ==
    LET reply == ApiReplies[cur.reply]
    IN  IF /\ iter > 0
           /\ ENDPOINT # None
           /\ reply.kind = "response"
           /\ reply.status_code = 200
           /\ reply.body.t = "dict"
           /\ {"homeworks", "current_date"} \subseteq DOMAIN reply.body.v
           /\ reply.body.v["homeworks"].t = "list"
        THEN reply.body.v["homeworks"].v
        ELSE <<>>

\* the verdict template filled in for a record whose status is in the table
VerdictText(homework) ==
    "Izmenilsya status proverki raboty \"" \o homework["homework_name"] \o "\". "
    \o CASE homework["status"] = "approved" ->
              "Rabota proverena: revyueru vsyo ponravilos. Ura!"
         [] homework["status"] = "reviewing" ->
              "Rabota vzyata na proverku revyuerom."
         [] homework["status"] = "rejected" ->
              "Rabota proverena: u revyuera est zamechaniya."

\* the exception that ended the try block of the last pass
CurCause ==
    try_block(cur.from_date, cur.old_before, ENDPOINT, ApiReplies[cur.reply],
              TRUE, cur.clock_end).exception

\* C17: every message handed to send_message is the verdict template of a
\* record of the response of that pass whose status is a key of the table,
\* or the text 'Error occurred while loop working: ' followed by the cause;
\* a record whose status is not in the table gets no message of its own.
C17_OnlyVerdictsAndErrors ==
    iter > 0 =>
        \A k \in 1..Len(cur.sends) :
            \/ \E j \in 1..Len(ReplyHomeworks) :
                  /\ WellFormed(ReplyHomeworks[j])
                  /\ cur.sends[k].msg = VerdictText(ReplyHomeworks[j])
            \/ /\ CurCause.exc # None
               /\ cur.sends[k].msg =
                    "Error occurred while loop working: " \o StrOfError(CurCause)

C17_Witness ==
    /\ iter > 0
    /\ ReplyHomeworks = <<Homework("hw1", "unknown")>>
    /\ Messages(cur.sends) =
         <<"Error occurred while loop working: Status: unknown is not in {'approved': 'Rabota proverena: revyueru vsyo ponravilos. Ura!', 'reviewing': 'Rabota vzyata na proverku revyuerom.', 'rejected': 'Rabota proverena: u revyuera est zamechaniya.'}.">>

\* C18: a message handed to send_message becomes old_message whether it
\* reached the chat or not; so a pass that fails with the message of the
\* failed pass before it hands nothing over, also when the one attempt to
\* send that message failed.
C18_RememberedEvenIfUndelivered ==
    iter > 0 =>
        /\ cur.sends # <<>> => old_message = cur.sends[Len(cur.sends)].msg
        /\ (cur.error # None /\ prev_error = cur.error) => cur.sends = <<>>

C18_Witness ==
    /\ iter = 3
    /\ cur.error # None
    /\ prev_error = cur.error
    /\ ~cur.delivered_before
    /\ cur.sends = <<>>
    /\ sent_count = 1

\* C19: a pass with a valid response and an empty list leaves old_message
\* as it was; so a failure whose message E was the message of the last
\* pass that was not such a silent one is not notified again.
C19_EmptyPassKeepsLastMessage ==
    /\ GotEmptyList => old_message = cur.old_before
    /\ (iter > 0 /\ cur.error # None /\ prev_error = None
          /\ cur.quiet_before = cur.error) => cur.sends = <<>>

C19_Witness ==
    /\ iter = 3
    /\ cur.error # None
    /\ prev_error = None
    /\ cur.quiet_before = cur.error
    /\ cur.sends = <<>>
    /\ sent_count = 1
    /\ old_message = cur.error

\* C14: check_response returns if and only if the payload is a dict that
\* has the keys homeworks and current_date and whose homeworks value is a
\* list; otherwise it raises (TypeError); when it returns, it returns the
\* list itself, in its order, the empty list too.
C14_CheckResponseContract ==
    (pc = "Returned" /\ arg.fn = "check_response") =>
        LET valid == /\ arg.top = "dict"
                     /\ {"homeworks", "current_date"} \subseteq arg.keys
                     /\ arg.hwtype = "list"
        IN  /\ result.exc = None <=> valid
            /\ ~valid => result.exc = "TypeError"
            /\ valid =>
                 /\ Len(result.val) = Len(arg.items)
                 /\ \A k \in 1..Len(arg.items) :
                        result.val[k] = HomeworkPool[arg.items[k]]

C14_Witness ==
    /\ pc = "Returned"
    /\ arg.fn = "check_response"
    /\ arg.top = "dict"
    /\ arg.keys = {"homeworks", "current_date", "code"}
    /\ arg.hwtype = "list"
    /\ arg.items = <<2, 1>>
    /\ result.exc = None
    /\ result.val = <<Homework("hw2", "rejected"), Homework("hw1", "approved")>>

\* C15: parse_status returns if and only if the record has homework_name
\* and status and the status is approved, reviewing or rejected; it raises
\* KeyError for a record without one of the two and ValueError for any
\* other status, the empty one too; when it returns, it returns the
\* template filled with the name and the verdict of the status.
C15_ParseStatusContract ==
    (pc = "Returned" /\ arg.fn = "parse_status") =>
        LET has_both == {"homework_name", "status"} \subseteq arg.keys
            known == arg.status \in {"approved", "reviewing", "rejected"}
        IN  /\ result.exc = None <=> (has_both /\ known)
            /\ ~has_both => result.exc = "KeyError"
            /\ (has_both /\ ~known) => result.exc = "ValueError"
            /\ (has_both /\ known) =>
                 result.val = VerdictText([homework_name |-> arg.name,
                                           status |-> arg.status])

C15_Witness ==
    /\ pc = "Returned"
    /\ arg.fn = "parse_status"
    /\ arg.keys = {"homework_name", "status"}
    /\ arg.name = "hw1"
    /\ arg.status = "rejected"
    /\ result.val =
         "Izmenilsya status proverki raboty \"hw1\". Rabota proverena: u revyuera est zamechaniya."

====
